---------------------------- MODULE Spec2Model ----------------------------
(***************************************************************************)
(* Model of the agentcore request pipeline of beauty-tour-solution:        *)
(*   packages/agentcore/main.py               (free-text variant, "main")  *)
(*   packages/agentcore/agents/*.py           (structured variant,"agents")*)
(* Texts are sequences of one-character strings.  The external             *)
(* capabilities (use_llm, structured_output, memory) are opaque: every     *)
(* call either raises or returns a value drawn from a bounded set.         *)
(***************************************************************************)
EXTENDS Integers, Sequences, FiniteSets, TLC

\* ------------------------------------------------------------------ bounds
\* longest run of padding characters put before/after a classifier reply
MaxPad == 1
\* longest run of wrapping pieces (blank, fence, fence+json) around a generated body
MaxWrap == 1
\* largest number of days in a generated schedule
MaxDays == 2

\* ------------------------------------------------------- text primitives
Upper == <<"A","B","C","D","E","F","G","H","I","J","K","L","M",
           "N","O","P","Q","R","S","T","U","V","W","X","Y","Z">>
LowerOf == <<"a","b","c","d","e","f","g","h","i","j","k","l","m",
             "n","o","p","q","r","s","t","u","v","w","x","y","z">>

\* str.lower() on one character
LowerChar(c) ==
  IF \E i \in 1..Len(Upper) : Upper[i] = c
    THEN LowerOf[CHOOSE i \in 1..Len(Upper) : Upper[i] = c]
    ELSE c

\* faulty variant: the case is not folded
LowerNoop(s) == s

\* str.lower()
Lower(s) == [i \in 1..Len(s) |-> LowerChar(s[i])]

IsSpace(c) == c = " "

\* str.strip(): drop leading and trailing whitespace
Strip(s) ==
  IF \A i \in 1..Len(s) : IsSpace(s[i]) THEN <<>>
  ELSE LET first == CHOOSE i \in 1..Len(s) :
                      /\ ~IsSpace(s[i])
                      /\ \A j \in 1..(i-1) : IsSpace(s[j])
           last  == CHOOSE i \in 1..Len(s) :
                      /\ ~IsSpace(s[i])
                      /\ \A j \in (i+1)..Len(s) : IsSpace(s[j])
       IN  SubSeq(s, first, last)

\* pat occurs in s at position i
OccursAt(s, pat, i) ==
  /\ i >= 1
  /\ i + Len(pat) - 1 <= Len(s)
  /\ \A k \in 1..Len(pat) : s[i + k - 1] = pat[k]

\* the "in" operator on strings
Contains(s, pat) == \E i \in 1..(Len(s) + 1) : OccursAt(s, pat, i)

\* str.startswith()
StartsWith(s, pat) == OccursAt(s, pat, 1)

RECURSIVE ReplaceFrom(_, _, _)
\* str.replace(pat, ''): remove the non-overlapping occurrences, left to right
ReplaceFrom(s, pat, i) ==
  IF i > Len(s) THEN <<>>
  ELSE IF OccursAt(s, pat, i) THEN ReplaceFrom(s, pat, i + Len(pat))
  ELSE <<s[i]>> \o ReplaceFrom(s, pat, i + 1)

Remove(s, pat) == ReplaceFrom(s, pat, 1)

\* sequences over S of length at most n
RECURSIVE SeqUpTo(_, _)
SeqUpTo(S, n) ==
  IF n = 0 THEN {<<>>}
  ELSE LET shorter == SeqUpTo(S, n - 1)
       IN  shorter \cup {Append(t, c) : t \in shorter, c \in S}

\* ------------------------------------------------------------ classifiers
TRIP_PLANNER == <<"t","r","i","p","-","p","l","a","n","n","e","r">>
STORE == <<"s","t","o","r","e">>

\* replies of the text-generation capability to a classification prompt
PadChars == {" ", "x"}
Pads == SeqUpTo(PadChars, MaxPad)
Heads == { <<>>, <<"s">>, <<"S","t","o">>, STORE, <<"S","T","O","R","E">>,
           <<"r","e","t","r","i","e","v","e">>, <<"r","e">>,
           <<"t","r","i","p">>, <<"T","r","i","p">>, TRIP_PLANNER,
           <<"d","e","f","a","u","l","t">> }
Tails == { <<>>, <<"t","o","r","e">>, <<"r","e">>, <<"R","E","D">>,
           <<"-","p","l","a","n","n","e","r">>,
           <<"-","P","L","A","N","N","E","R">>,
           <<"p","l","a","n","n","e","r">> }
ClassifierTexts == { p \o h \o q \o t : p \in Pads, q \in Pads, h \in Heads, t \in Tails }

\* an outcome of agent.tool.use_llm: it raises or it returns a text
Raised == [raises |-> TRUE, text |-> <<>>]
LlmOutcomes == {Raised} \cup { [raises |-> FALSE, text |-> t] : t \in ClassifierTexts }

Ret(v) == [status |-> "returned", value |-> v]
Exc == [status |-> "raised", value |-> "exception"]

\* query_classifier.determine_query_type / main.determine_query_type
determine_query_type(o) ==
  IF o.raises THEN Ret("default")
  ELSE LET query_type_text == Strip(Lower(o.text))
       IN  IF Contains(query_type_text, TRIP_PLANNER)
             THEN Ret("trip-planner")
             ELSE Ret("default")

\* default_query_handler.determine_action / main.determine_action
determine_action(o) ==
  IF o.raises THEN Exc
  ELSE LET action_text == Strip(Lower(o.text))
       IN  IF Contains(action_text, STORE)
             THEN Ret("store")
             ELSE Ret("retrieve")

\* ------------------------------------------------------------- schedules
\* A TripSchedule value.  An activity keeps name, activityId ("absent" when
\* the field does not exist), cost and category; a day keeps date (days
\* after today), dayNumber, activities, totalCost and notes;
\* budgetUtilization is kept in percent.
Act(name, id, cost, category) ==
  [activity |-> name, activityId |-> id, cost |-> cost, category |-> category]

Day(offset, n, acts, total, notes) ==
  [date |-> offset, dayNumber |-> n, activities |-> acts, totalCost |-> total, notes |-> notes]

\* main.generate_fallback_schedule: the dict before json.dumps
FallbackMain ==
  [ schedule |-> <<
      Day(0, 1,
          << Act("Initial Consultation", "absent", 200, "consultation"),
             Act("Skin Analysis", "absent", 150, "consultation") >>,
          350, "Arrival day with initial assessments - fallback data") >>,
    costBreakdown |-> [treatments |-> 350, accommodation |-> 150, transportation |-> 60,
                       activities |-> 0, total |-> 560, budgetUtilization |-> 30],
    summary |-> [totalDays |-> 1, totalActivities |-> 2, totalThemes |-> 1,
                 estimatedCost |-> 560] ]

\* faulty variant of the fallback below: total is not the sum of the categories
FallbackAgentsBadTotal ==
  [ schedule |-> <<>>,
    costBreakdown |-> [treatments |-> 3200, accommodation |-> 450, transportation |-> 120,
                       activities |-> 825, total |-> 4594, budgetUtilization |-> 85],
    summary |-> [totalDays |-> 0, totalActivities |-> 0, totalThemes |-> 0,
                 estimatedCost |-> 4595] ]

\* trip_planner.generate_fallback_schedule: the model before model_dump
FallbackAgents ==
  [ schedule |-> <<
      Day(0, 1,
          << Act("Rhinoplasty Consultation", "absent", 300, "surgery"),
             Act("Anti-Aging Facial Treatment", "absent", 280, "skin"),
             Act("Nutritional Consultation & Meal Planning", "absent", 150, "diet"),
             Act("Hair Scalp Analysis & Treatment", "absent", 200, "hair") >>,
          930, "Initial consultation day covering multiple beauty categories to assess treatment options and create comprehensive plan."),
      Day(1, 2,
          << Act("Double Eyelid Surgery", "absent", 2500, "surgery"),
             Act("Post-Surgery Recovery Meal", "absent", 35, "diet"),
             Act("Gel Nail Art & Manicure", "absent", 120, "nail"),
             Act("Professional Makeup Lesson", "absent", 250, "makeup") >>,
          2905, "Major surgery day with complementary beauty treatments scheduled around recovery time."),
      Day(2, 3,
          << Act("Post-Surgery Follow-up", "absent", 100, "surgery"),
             Act("Hydrating Skin Mask Treatment", "absent", 180, "skin"),
             Act("Hair Styling & Keratin Treatment", "absent", 300, "hair"),
             Act("Healthy Smoothie & Supplement Consultation", "absent", 80, "diet"),
             Act("Pedicure & Foot Spa Treatment", "absent", 100, "nail") >>,
          760, "Final day focusing on recovery care and completing beauty treatments across all categories.") >>,
    costBreakdown |-> [treatments |-> 3200, accommodation |-> 450, transportation |-> 120,
                       activities |-> 825, total |-> 4595, budgetUtilization |-> 85],
    summary |-> [totalDays |-> 3, totalActivities |-> 12, totalThemes |-> 6,
                 estimatedCost |-> 4595] ]

\* what the generation capability can produce as a schedule: nDays days of
\* one activity each (cost 1), whose id is id, with one derived figure
\* possibly off by one (skew)
GenIds == {"a1", "zz"}
Skews == {"none", "total", "estimatedCost", "totalDays"}
Off(skew, field) == IF skew = field THEN 1 ELSE 0

GenSchedule(nDays, id, skew) ==
  [ schedule |-> [n \in 1..nDays |->
                    Day(n - 1, n, << Act("generated", id, 1, "treatment") >>, 1, "")],
    costBreakdown |-> [treatments |-> nDays, accommodation |-> 1, transportation |-> 0,
                       activities |-> 0, total |-> nDays + 1 + Off(skew, "total"),
                       budgetUtilization |-> 50],
    summary |-> [totalDays |-> nDays + Off(skew, "totalDays"), totalActivities |-> nDays,
                 totalThemes |-> IF nDays = 0 THEN 0 ELSE 1,
                 estimatedCost |-> nDays + 1 + Off(skew, "total") + Off(skew, "estimatedCost")] ]

\* free JSON can carry any activityId; the Activity model of trip_planner.py
\* has no such field
TextSchedules == { GenSchedule(n, id, k) : n \in 0..MaxDays, id \in GenIds, k \in Skews }
ModelSchedules == { GenSchedule(n, "absent", k) : n \in 0..MaxDays, k \in Skews }

NoSchedule == [ schedule |-> <<>>,
                costBreakdown |-> [treatments |-> 0, accommodation |-> 0, transportation |-> 0,
                                   activities |-> 0, total |-> 0, budgetUtilization |-> 0],
                summary |-> [totalDays |-> 0, totalActivities |-> 0, totalThemes |-> 0,
                             estimatedCost |-> 0] ]

\* ------------------------------------------------------------------ JSON
\* An object literal is one element of a text: the string that json.dumps
\* writes for the object.
Dumps(obj) == << ToString(obj) >>

KnownObjects == TextSchedules \cup {FallbackMain}
ObjectLiterals == { ToString(obj) : obj \in KnownObjects }
IsObjectLiteral(c) == c \in ObjectLiterals
ObjectOf(c) == CHOOSE obj \in KnownObjects : ToString(obj) = c

\* json.loads: ok is FALSE where it raises JSONDecodeError.  Over the
\* alphabet of the generated texts a JSON document is, between optional
\* blanks, a number (digits 1), the empty object or an object literal.
Loads(s) ==
  LET t == Strip(s) IN
  IF Len(t) >= 1 /\ \A i \in 1..Len(t) : t[i] = "1"
    THEN [ok |-> TRUE, kind |-> "number"]
  ELSE IF /\ Len(t) >= 2
          /\ t[1] = "{"
          /\ t[Len(t)] = "}"
          /\ \A i \in 2..(Len(t) - 1) : IsSpace(t[i])
    THEN [ok |-> TRUE, kind |-> "emptyobject"]
  ELSE IF Len(t) = 1 /\ IsObjectLiteral(t[1])
    THEN [ok |-> TRUE, kind |-> "object"]
  ELSE [ok |-> FALSE, kind |-> "error"]

\* texts the generation capability can return to the trip-planner prompt
\* the fence character (grave accent), written "^" in the model's alphabet
FENCE_CHAR == "^"
TICKS == << FENCE_CHAR, FENCE_CHAR, FENCE_CHAR >>
TICKS_JSON == TICKS \o <<"j","s","o","n">>
WrapPieces == { <<" ">>, TICKS, TICKS_JSON }

RECURSIVE Wraps(_)
Wraps(n) ==
  IF n = 0 THEN {<<>>}
  ELSE LET shorter == Wraps(n - 1)
       IN  shorter \cup { w \o p : w \in shorter, p \in WrapPieces }

Bodies == { <<>>, <<"x">>, <<"1">>, <<"{","}">>, <<"{"," ","}">>, <<"{","x","}">> }
            \cup { Dumps(obj) : obj \in TextSchedules }
GenTexts == { pre \o b \o post : pre \in Wraps(MaxWrap), post \in Wraps(MaxWrap), b \in Bodies }

\* ------------------------------------------------- values and call records
\* what an operation returns: a text, an object (dict), a fixed message or
\* the answer of the capability; wrap is "envelope" for {"result": ...}
TextResult(t) == [wrap |-> "bare", kind |-> "text", text |-> t, obj |-> NoSchedule, msg |-> <<>>]
ObjectResult(obj) == [wrap |-> "bare", kind |-> "object", text |-> <<>>, obj |-> obj, msg |-> <<>>]
MessageResult(m) == [wrap |-> "bare", kind |-> "message", text |-> <<>>, obj |-> NoSchedule, msg |-> m]
LabelResult(l) == [wrap |-> "bare", kind |-> "label", text |-> <<>>, obj |-> NoSchedule, msg |-> <<l>>]
NoResult == [wrap |-> "bare", kind |-> "none", text |-> <<>>, obj |-> NoSchedule, msg |-> <<>>]
Envelope(r) == [r EXCEPT !.wrap = "envelope"]

Returned(v, cs) == [status |-> "returned", value |-> v, calls |-> cs]
Raises(cs) == [status |-> "raised", value |-> NoResult, calls |-> cs]

\* memory(action="retrieve", ...) arguments: min_score in tenths
MIN_SCORE_TENTHS == 4
MAX_RESULTS == 9

\* one call of an external capability, with its arguments
LlmCall(system_prompt, prompt) ==
  [tool |-> "use_llm", system_prompt |-> system_prompt, action |-> "", arg |-> prompt,
   min_score |-> 0, max_results |-> 0]
StructuredCall(prompt) ==
  [tool |-> "structured_output", system_prompt |-> "", action |-> "", arg |-> prompt,
   min_score |-> 0, max_results |-> 0]
StoreCall(content) ==
  [tool |-> "memory", system_prompt |-> "", action |-> "store", arg |-> <<content>>,
   min_score |-> 0, max_results |-> 0]
RetrieveCall(query) ==
  [tool |-> "memory", system_prompt |-> "", action |-> "retrieve", arg |-> <<query>>,
   min_score |-> MIN_SCORE_TENTHS, max_results |-> MAX_RESULTS]

QueryTypeCall(query) == LlmCall("QUERY_TYPE_CLASSIFIER_PROMPT", <<"Query: ", query>>)
ActionCall(query) == LlmCall("ACTION_SYSTEM_PROMPT", <<"Query: ", query>>)

\* ------------------------------------------------------- itinerary path
\* faulty variant: the structured fallback with the inconsistent total
FallbackBadTotal(variant) ==
  IF variant = "main" THEN TextResult(Dumps(FallbackMain))
  ELSE ObjectResult(FallbackAgentsBadTotal)

\* faulty variant: main.py returning the dict itself instead of json.dumps
FallbackAsObject(variant) ==
  IF variant = "main" THEN ObjectResult(FallbackMain)
  ELSE ObjectResult(FallbackAgents)

\* generate_fallback_schedule: json.dumps(fallback) in main.py,
\* fallback_schedule.model_dump() in trip_planner.py
generate_fallback_schedule(variant) ==
  IF variant = "main" THEN TextResult(Dumps(FallbackMain))
  ELSE ObjectResult(FallbackAgents)

\* main.process_trip_planner_query, lines 180-186: strip and fence removal
CleanResult(text) ==
  LET result_str == Strip(text) IN
  IF StartsWith(result_str, TICKS_JSON)
    THEN Strip(Remove(Remove(result_str, TICKS_JSON), TICKS))
  ELSE IF StartsWith(result_str, TICKS)
    THEN Strip(Remove(result_str, TICKS))
  ELSE result_str

\* outcomes of the generation call on the itinerary path
NoGen == [raises |-> FALSE, kind |-> "none", text |-> <<>>, obj |-> NoSchedule]
GenRaised == [raises |-> TRUE, kind |-> "none", text |-> <<>>, obj |-> NoSchedule]
\* use_llm returns a text
GenOutcomesMain ==
  {GenRaised} \cup { [raises |-> FALSE, kind |-> "text", text |-> t, obj |-> NoSchedule] : t \in GenTexts }
\* structured_output returns a TripSchedule instance, or something that is
\* not a model at all
GenOutcomesAgents ==
  {GenRaised, [raises |-> FALSE, kind |-> "other", text |-> <<>>, obj |-> NoSchedule]}
    \cup { [raises |-> FALSE, kind |-> "model", text |-> <<>>, obj |-> m] : m \in ModelSchedules }
GenOutcomes(variant) == IF variant = "main" THEN GenOutcomesMain ELSE GenOutcomesAgents

\* faulty variant: no try/except and no JSON check around the generation call
TripNoFallbackOnRaise(variant, query, g) ==
  IF variant = "main"
    THEN IF g.raises THEN Raises(<< LlmCall("TRIP_PLANNER_SYSTEM_PROMPT", <<query>>) >>)
         ELSE Returned(TextResult(CleanResult(g.text)),
                       << LlmCall("TRIP_PLANNER_SYSTEM_PROMPT", <<query>>) >>)
    ELSE IF g.raises THEN Raises(<< StructuredCall(<<"TRIP_PLANNER_SYSTEM_PROMPT", query>>) >>)
         ELSE Returned(ObjectResult(g.obj),
                       << StructuredCall(<<"TRIP_PLANNER_SYSTEM_PROMPT", query>>) >>)

\* process_trip_planner_query of main.py (variant "main") and of
\* agents/trip_planner.py (variant "agents")
process_trip_planner_query(variant, query, g) ==
  IF variant = "main"
    THEN LET cs == << LlmCall("TRIP_PLANNER_SYSTEM_PROMPT", <<query>>) >> IN
         IF g.raises THEN Returned(generate_fallback_schedule("main"), cs)
         ELSE LET result_str == CleanResult(g.text) IN
              IF Loads(result_str).ok
                THEN Returned(TextResult(result_str), cs)
                ELSE Returned(generate_fallback_schedule("main"), cs)
    ELSE LET cs == << StructuredCall(<<"TRIP_PLANNER_SYSTEM_PROMPT", query>>) >> IN
         IF g.raises THEN Returned(generate_fallback_schedule("agents"), cs)
         ELSE IF g.kind = "model"
           THEN Returned(ObjectResult(g.obj), cs)
           \* result.model_dump() raises AttributeError, caught below it
           ELSE Returned(generate_fallback_schedule("agents"), cs)

\* ------------------------------------------------------- knowledge path
STORED == <<"I've stored this information in the knowledge base.">>
NOT_FOUND == <<"I couldn't find any relevant information in the knowledge base for your query.">>
RETRIEVE_ERROR == <<"I encountered an issue retrieving information: ", "str(e)">>
ANSWER == <<"answer">>

\* outcomes of memory(store), memory(retrieve) and of the answering use_llm
StoreOutcomes == {"ok", "raises"}
RetrieveOutcomes == {"raises", "empty", "matches"}
AnswerOutcomes == {"raises", "text"}
ActionOutcomes == { determine_action(o) : o \in LlmOutcomes }
QueryTypeOutcomes == { determine_query_type(o) : o \in LlmOutcomes }

\* faulty variant: the retrieve branch without its try/except
RetrieveUncaught(variant, query, cs, m, a) ==
  IF variant = "main"
    THEN LET cs1 == Append(cs, RetrieveCall(query)) IN
         IF m = "raises" THEN Raises(cs1)
         ELSE IF m = "matches"
           THEN LET cs2 == Append(cs1, LlmCall("ANSWER_SYSTEM_PROMPT",
                                   <<"User question: ", query, "Information from knowledge base:", "result">>))
                IN  IF a = "raises" THEN Raises(cs2)
                    ELSE Returned(MessageResult(ANSWER), cs2)
           ELSE Returned(MessageResult(NOT_FOUND), cs1)
    ELSE LET cs1 == Append(cs, LlmCall("ANSWER_SYSTEM_PROMPT", <<query>>)) IN
         IF a = "raises" THEN Raises(cs1)
         ELSE Returned(MessageResult(ANSWER), cs1)

\* the try block of process_default_query
Retrieve(variant, query, cs, m, a) ==
  IF variant = "main"
    THEN LET cs1 == Append(cs, RetrieveCall(query)) IN
         IF m = "raises" THEN Returned(MessageResult(RETRIEVE_ERROR), cs1)
         ELSE IF m = "matches"
           THEN LET cs2 == Append(cs1, LlmCall("ANSWER_SYSTEM_PROMPT",
                                   <<"User question: ", query, "Information from knowledge base:", "result">>))
                IN  IF a = "raises" THEN Returned(MessageResult(RETRIEVE_ERROR), cs2)
                    ELSE Returned(MessageResult(ANSWER), cs2)
           ELSE Returned(MessageResult(NOT_FOUND), cs1)
    ELSE LET cs1 == Append(cs, LlmCall("ANSWER_SYSTEM_PROMPT", <<query>>)) IN
         IF a = "raises" THEN Returned(MessageResult(RETRIEVE_ERROR), cs1)
         ELSE Returned(MessageResult(ANSWER), cs1)

\* process_default_query of main.py and of agents/default_query_handler.py;
\* act is what determine_action did, st, m, a the outcomes of the later calls
process_default_query(variant, query, act, st, m, a) ==
  LET cs == << ActionCall(query) >> IN
  IF act.status = "raised" THEN Raises(cs)
  ELSE IF act.value = "store"
    THEN LET cs1 == Append(cs, StoreCall(query)) IN
         IF st = "raises" THEN Raises(cs1)
         ELSE Returned(MessageResult(STORED), cs1)
    ELSE Retrieve(variant, query, cs, m, a)

\* ---------------------------------------------------------- the requests
UNSET == "<unset>"
DEFAULT_PROMPT == "Hello! How can I help you today?"
Prompts == {"Remember that my birthday is July 25", "What is my birthday?"}
Types == {UNSET, "auto", "default", "trip-planner"}
\* data.availableActivities as the list of its ids; <<>> when none is supplied
Catalogs == { <<>>, <<"a1", "a2">> }
Payloads == [prompt : Prompts \cup {UNSET}, type : Types, catalog : Catalogs]
NoPayload == [prompt |-> UNSET, type |-> UNSET, catalog |-> <<>>]
Variants == {"main", "agents"}

VARIABLES
  pc,       \* "idle": waiting for a call; "done": the call has finished
  op,       \* the operation that was called
  variant,  \* whose definition ran: main.py ("main") or agents/*.py ("agents")
  payload,  \* the request payload given to invoke
  query,    \* the query text the operation worked on
  env,      \* what the external capabilities did during the call
  status,   \* "returned" or "raised"
  result,   \* the value returned
  calls     \* the external capability calls made, in order

vars == << pc, op, variant, payload, query, env, status, result, calls >>

NoEnv == [reply |-> <<>>, query_type |-> "none", action |-> "none", store |-> "none",
          memory |-> "none", answer |-> "none", gen |-> NoGen]

Init ==
  /\ pc = "idle"
  /\ op = "none"
  /\ variant = "main"
  /\ payload = NoPayload
  /\ query = ""
  /\ env = NoEnv
  /\ status = "none"
  /\ result = NoResult
  /\ calls = <<>>

\* the bookkeeping every finished call leaves behind
Finish(o, v, p, q, e, r) ==
  /\ pc' = "done"
  /\ op' = o
  /\ variant' = v
  /\ payload' = p
  /\ query' = q
  /\ env' = e
  /\ status' = r.status
  /\ result' = r.value
  /\ calls' = r.calls

\* the outcomes of the knowledge path that the handler consumed
DefaultEnv(v, act, st, m, a) ==
  LET action == IF act.status = "raised" THEN "raised" ELSE act.value IN
  [NoEnv EXCEPT !.action = action,
                !.store = IF action = "store" THEN st ELSE "none",
                !.memory = IF action = "retrieve" /\ v = "main" THEN m ELSE "none",
                !.answer = IF action = "retrieve" /\ (v = "agents" \/ m = "matches")
                             THEN a ELSE "none"]

\* a direct call of determine_query_type
DetermineQueryType ==
  /\ pc = "idle"
  /\ \E v \in Variants, q \in Prompts, o \in LlmOutcomes :
       LET r == determine_query_type(o) IN
       Finish("determine_query_type", v, NoPayload, q,
              [NoEnv EXCEPT !.reply = <<o>>, !.query_type = r.value],
              Returned(LabelResult(r.value), << QueryTypeCall(q) >>))

\* a direct call of determine_action
DetermineAction ==
  /\ pc = "idle"
  /\ \E v \in Variants, q \in Prompts, o \in LlmOutcomes :
       LET r == determine_action(o) IN
       Finish("determine_action", v, NoPayload, q,
              [NoEnv EXCEPT !.reply = <<o>>,
                            !.action = IF r.status = "raised" THEN "raised" ELSE r.value],
              IF r.status = "raised" THEN Raises(<< ActionCall(q) >>)
              ELSE Returned(LabelResult(r.value), << ActionCall(q) >>))

\* a direct call of process_default_query
ProcessDefaultQuery ==
  /\ pc = "idle"
  /\ \E v \in Variants, q \in Prompts, act \in ActionOutcomes,
        st \in StoreOutcomes, m \in RetrieveOutcomes, a \in AnswerOutcomes :
       Finish("process_default_query", v, NoPayload, q, DefaultEnv(v, act, st, m, a),
              process_default_query(v, q, act, st, m, a))

\* a direct call of process_trip_planner_query
ProcessTripPlannerQuery ==
  /\ pc = "idle"
  /\ \E v \in Variants, q \in Prompts :
       \E g \in GenOutcomes(v) :
         Finish("process_trip_planner_query", v, NoPayload, q, [NoEnv EXCEPT !.gen = g],
                process_trip_planner_query(v, q, g))

\* a direct call of generate_fallback_schedule
GenerateFallbackSchedule ==
  /\ pc = "idle"
  /\ \E v \in Variants :
       Finish("generate_fallback_schedule", v, NoPayload, "", NoEnv,
              Returned(generate_fallback_schedule(v), <<>>))

\* main.invoke: classify the prompt, dispatch, wrap the result
invoke(p, qt, act, st, m, a, g) ==
  LET user_message == IF p.prompt = UNSET THEN DEFAULT_PROMPT ELSE p.prompt
      first == << QueryTypeCall(user_message) >>
      r == IF qt.value = "trip-planner"
             THEN process_trip_planner_query("main", user_message, g)
             ELSE process_default_query("main", user_message, act, st, m, a)
  IN  IF r.status = "raised" THEN Raises(first \o r.calls)
      ELSE Returned(Envelope(r.value), first \o r.calls)

Invoke ==
  /\ pc = "idle"
  /\ \E p \in Payloads, qt \in QueryTypeOutcomes :
       LET user_message == IF p.prompt = UNSET THEN DEFAULT_PROMPT ELSE p.prompt IN
       IF qt.value = "trip-planner"
         THEN \E g \in GenOutcomesMain :
                Finish("invoke", "main", p, user_message,
                       [NoEnv EXCEPT !.query_type = qt.value, !.gen = g],
                       invoke(p, qt, Exc, "ok", "empty", "text", g))
         ELSE \E act \in ActionOutcomes, st \in StoreOutcomes,
                 m \in RetrieveOutcomes, a \in AnswerOutcomes :
                Finish("invoke", "main", p, user_message,
                       [DefaultEnv("main", act, st, m, a) EXCEPT !.query_type = qt.value],
                       invoke(p, qt, act, st, m, a, NoGen))

\* the caller takes the response; the next call starts from scratch
Respond ==
  /\ pc = "done"
  /\ pc' = "idle"
  /\ op' = "none"
  /\ variant' = "main"
  /\ payload' = NoPayload
  /\ query' = ""
  /\ env' = NoEnv
  /\ status' = "none"
  /\ result' = NoResult
  /\ calls' = <<>>

Next ==
  \/ Invoke
  \/ DetermineQueryType
  \/ DetermineAction
  \/ ProcessDefaultQuery
  \/ ProcessTripPlannerQuery
  \/ GenerateFallbackSchedule
  \/ Respond

Spec == Init /\ [][Next]_vars

\* ------------------------------------------------------------ properties
Done(o) == pc = "done" /\ op = o

\* the call went down the itinerary path
OnItineraryPath ==
  \/ Done("process_trip_planner_query")
  \/ Done("invoke") /\ env.query_type = "trip-planner"

\* the call went down the knowledge path
OnKnowledgePath ==
  \/ Done("process_default_query")
  \/ Done("invoke") /\ env.query_type = "default"

IsGenerationCall(c) ==
  \/ c.tool = "structured_output"
  \/ c.tool = "use_llm" /\ c.system_prompt = "TRIP_PLANNER_SYSTEM_PROMPT"

CallsWhere(P(_)) == Cardinality({ i \in DOMAIN calls : P(calls[i]) })

\* the value without the envelope
Bare(r) == [r EXCEPT !.wrap = "bare"]

\* the result carries a TripSchedule: a dict, or a text that is the JSON of one
HasSchedule(r) ==
  \/ r.kind = "object"
  \/ r.kind = "text" /\ Loads(r.text).kind = "object"

ScheduleIn(r) == IF r.kind = "object" THEN r.obj ELSE ObjectOf(Strip(r.text)[1])

TotalsAgree(t) ==
  /\ t.costBreakdown.total = t.costBreakdown.treatments + t.costBreakdown.accommodation
                               + t.costBreakdown.transportation + t.costBreakdown.activities
  /\ t.summary.estimatedCost = t.costBreakdown.total
  /\ t.summary.totalDays = Len(t.schedule)

\* C1: invoke never raises: whatever the external calls do, it returns an
\* envelope {"result": ...}.
C1_InvokeAlwaysReturnsEnvelope ==
  Done("invoke") => (status = "returned" /\ result.wrap = "envelope")

\* the generation call failed: it raised, or (text variant) what it returned
\* is, once trimmed and freed of fences, not JSON
GenerationFailed ==
  \/ env.gen.raises
  \/ variant = "main" /\ ~Loads(CleanResult(env.gen.text)).ok

\* C2: on the itinerary path, when the generation call raises or (text
\* variant) its output does not parse as JSON, the result is exactly the
\* fallback schedule and the generation capability was called exactly once.
C2_FailureGivesFallbackOnce ==
  (OnItineraryPath /\ GenerationFailed) =>
    /\ status = "returned"
    /\ Bare(result) = (IF variant = "main" THEN TextResult(Dumps(FallbackMain))
                       ELSE ObjectResult(FallbackAgents))
    /\ CallsWhere(IsGenerationCall) = 1

C2_Witness ==
  /\ Done("process_trip_planner_query")
  /\ variant = "main"
  /\ ~env.gen.raises
  /\ StartsWith(env.gen.text, TICKS)
  /\ ~Loads(CleanResult(env.gen.text)).ok
  /\ result = TextResult(Dumps(FallbackMain))

\* what was generated has the TripSchedule structure
GeneratedConforms ==
  IF variant = "main" THEN Loads(CleanResult(env.gen.text)).kind = "object"
  ELSE env.gen.kind = "model"

\* C3: on the itinerary path, when the generated output does not conform to
\* the TripSchedule structure, the result is the fallback schedule.
C3_NonConformingGivesFallback ==
  (OnItineraryPath /\ ~env.gen.raises /\ ~GeneratedConforms) =>
    /\ status = "returned"
    /\ Bare(result) = (IF variant = "main" THEN TextResult(Dumps(FallbackMain))
                       ELSE ObjectResult(FallbackAgents))

\* C4: when the text-generation call raises, both classifiers return their
\* default label (default, retrieve) instead of raising.
C4_ClassifierAbsorbsException ==
  ((Done("determine_query_type") \/ Done("determine_action")) /\ env.reply = <<Raised>>) =>
    /\ status = "returned"
    /\ result = LabelResult(IF op = "determine_query_type" THEN "default" ELSE "retrieve")

\* the token occurs in the text when letter case is ignored
OccursIgnoringCase(text, token) ==
  \E i \in 1..Len(text) :
    /\ i + Len(token) - 1 <= Len(text)
    /\ \A k \in 1..Len(token) : LowerChar(text[i + k - 1]) = token[k]

\* C5: for every text the capability returns, a classifier returns one of
\* its two labels, the positive one (trip-planner, store) exactly when the
\* text contains the positive token regardless of case, else the default one.
C5_LabelFollowsToken ==
  ((Done("determine_query_type") \/ Done("determine_action"))
      /\ env.reply # <<>> /\ env.reply # <<Raised>>) =>
    LET text == env.reply[1].text
        positive == IF op = "determine_query_type" THEN "trip-planner" ELSE "store"
        default == IF op = "determine_query_type" THEN "default" ELSE "retrieve"
        token == IF op = "determine_query_type" THEN TRIP_PLANNER ELSE STORE
    IN  /\ status = "returned"
        /\ result \in {LabelResult(positive), LabelResult(default)}
        /\ (result = LabelResult(positive)) <=> OccursIgnoringCase(text, token)

C5_Witness ==
  /\ Done("determine_action")
  /\ env.reply # <<>>
  /\ ~env.reply[1].raises
  /\ \E i \in 1..Len(env.reply[1].text) : env.reply[1].text[i] = "S"
  /\ IsSpace(env.reply[1].text[1])
  /\ result = LabelResult("store")

\* the ids of the catalog
CatalogIds(catalog) == { catalog[i] : i \in DOMAIN catalog }

\* the activityId of every item of a schedule ("absent" where an item has none)
ActivityIds(t) ==
  UNION { { t.schedule[d].activities[i].activityId : i \in DOMAIN t.schedule[d].activities } :
          d \in DOMAIN t.schedule }

\* C6: when a request brings an activity catalog, every item of the
\* TripSchedule returned for a generated schedule has an activityId of that
\* catalog (a generated id outside the catalog having been replaced by the
\* first catalog id).
C6_ActivityIdsInCatalog ==
  (Done("invoke") /\ env.query_type = "trip-planner" /\ payload.catalog # <<>>
      /\ ~GenerationFailed /\ status = "returned" /\ HasSchedule(result)) =>
    ActivityIds(ScheduleIn(result)) \subseteq CatalogIds(payload.catalog)

\* C7: every TripSchedule returned on the itinerary path has
\* costBreakdown.total = treatments + accommodation + transportation +
\* activities, summary.estimatedCost = costBreakdown.total and
\* summary.totalDays = the number of days.
C7_ReturnedTotalsAgree ==
  (OnItineraryPath /\ status = "returned" /\ HasSchedule(result)) =>
    TotalsAgree(ScheduleIn(result))

\* C8: generate_fallback_schedule returns, calls no external capability, and
\* its schedule has total = sum of the four categories, estimatedCost = total
\* and totalDays = number of days.
C8_FallbackSelfConsistent ==
  Done("generate_fallback_schedule") =>
    /\ status = "returned"
    /\ calls = <<>>
    /\ HasSchedule(result)
    /\ TotalsAgree(ScheduleIn(result))

C8_Witness ==
  /\ Done("generate_fallback_schedule")
  /\ variant = "agents"
  /\ result.kind = "object"
  /\ Len(result.obj.schedule) = 3
  /\ result.obj.costBreakdown.total = 4595

IsQueryTypeCall(c) ==
  c.tool = "use_llm" /\ c.system_prompt = "QUERY_TYPE_CLASSIFIER_PROMPT"

\* C9: a request that declares type default or trip-planner is dispatched to
\* that handler without any query-type classification call.
C9_DeclaredTypeSkipsClassifier ==
  (Done("invoke") /\ payload.type \in {"default", "trip-planner"}) =>
    /\ CallsWhere(IsQueryTypeCall) = 0
    /\ (payload.type = "trip-planner") <=> (CallsWhere(IsGenerationCall) > 0)

IsStoreCall(c) == c.tool = "memory" /\ c.action = "store"
IsRetrieveCall(c) == c.tool = "memory" /\ c.action = "retrieve"
IsAnswerCall(c) == c.tool = "use_llm" /\ c.system_prompt = "ANSWER_SYSTEM_PROMPT"

\* C10: on the knowledge path, when the action is store, the handler calls
\* store exactly once with the query text as content, makes no retrieve and
\* no answer call, and returns the storage acknowledgement.
C10_StoreOnceAndAcknowledge ==
  (OnKnowledgePath /\ env.action = "store") =>
    /\ CallsWhere(IsStoreCall) = 1
    /\ \A i \in DOMAIN calls : IsStoreCall(calls[i]) => calls[i].arg = <<query>>
    /\ CallsWhere(IsRetrieveCall) = 0
    /\ CallsWhere(IsAnswerCall) = 0
    /\ status = "returned"
    /\ Bare(result) = MessageResult(STORED)

\* C11: on the knowledge path, when the action is retrieve, the handler
\* queries the semantic store once for the query text with relevance floor
\* 0.4 and result cap 9 before any answer call, and when the store returns no
\* match the result is the not-found message and no answer call is made.
C11_RetrieveQueriesStoreFirst ==
  (OnKnowledgePath /\ env.action = "retrieve") =>
    /\ CallsWhere(IsRetrieveCall) = 1
    /\ \A i \in DOMAIN calls :
         IsRetrieveCall(calls[i]) =>
           /\ calls[i].arg = <<query>>
           /\ calls[i].min_score = MIN_SCORE_TENTHS
           /\ calls[i].max_results = MAX_RESULTS
           /\ \A j \in DOMAIN calls : IsAnswerCall(calls[j]) => i < j
    /\ env.memory = "empty" =>
         /\ status = "returned"
         /\ Bare(result) = MessageResult(NOT_FOUND)
         /\ CallsWhere(IsAnswerCall) = 0

\* C12: on the retrieve branch of the knowledge path, an exception of the
\* store's retrieve call or of the answer call is caught: the handler returns
\* the message that starts "I encountered an issue retrieving information".
C12_RetrieveFailureGivesMessage ==
  (OnKnowledgePath /\ env.action = "retrieve"
      /\ (env.memory = "raises" \/ env.answer = "raises")) =>
    /\ status = "returned"
    /\ result.kind = "message"
    /\ Len(result.msg) >= 1
    /\ result.msg[1] = "I encountered an issue retrieving information: "

C12_Witness ==
  /\ Done("process_default_query")
  /\ variant = "main"
  /\ env.action = "retrieve"
  /\ env.memory = "matches"
  /\ env.answer = "raises"
  /\ CallsWhere(IsAnswerCall) = 1
  /\ result = MessageResult(RETRIEVE_ERROR)

RECURSIVE SumOver(_, _)
\* the sum of f[i] over the indices in S
SumOver(f, S) ==
  IF S = {} THEN 0
  ELSE LET i == CHOOSE x \in S : TRUE IN f[i] + SumOver(f, S \ {i})

ActivityCount(t) == SumOver([d \in DOMAIN t.schedule |-> Len(t.schedule[d].activities)],
                            DOMAIN t.schedule)

Categories(t) ==
  UNION { { t.schedule[d].activities[i].category : i \in DOMAIN t.schedule[d].activities } :
          d \in DOMAIN t.schedule }

DayCost(day) == SumOver([i \in DOMAIN day.activities |-> day.activities[i].cost],
                        DOMAIN day.activities)

\* C13: in the output of generate_fallback_schedule, summary.totalActivities
\* is the number of activities over all days and summary.totalThemes is the
\* number of distinct categories of the activities.
C13_FallbackCountsAgree ==
  Done("generate_fallback_schedule") =>
    LET t == ScheduleIn(result) IN
    /\ t.summary.totalActivities = ActivityCount(t)
    /\ t.summary.totalThemes = Cardinality(Categories(t))

\* C14: in the output of generate_fallback_schedule, each day's totalCost is
\* the sum of the costs of its activities, costBreakdown.total is the sum of
\* the days' totalCost, and dayNumber runs 1..n in schedule order.
C14_FallbackDayTotalsAgree ==
  Done("generate_fallback_schedule") =>
    LET t == ScheduleIn(result) IN
    /\ \A d \in DOMAIN t.schedule : t.schedule[d].totalCost = DayCost(t.schedule[d])
    /\ t.costBreakdown.total =
         SumOver([d \in DOMAIN t.schedule |-> t.schedule[d].totalCost], DOMAIN t.schedule)
    /\ \A d \in DOMAIN t.schedule : t.schedule[d].dayNumber = d

\* C15: in the free-text variant every value process_trip_planner_query
\* returns is a text that parses as JSON: the generated text, trimmed and
\* freed of fences, when that parses, and the serialized fallback otherwise.
C15_TextResultParses ==
  ((Done("process_trip_planner_query") \/ (Done("invoke") /\ env.query_type = "trip-planner"))
      /\ variant = "main") =>
    /\ status = "returned"
    /\ result.kind = "text"
    /\ Loads(result.text).ok
    /\ \/ ~env.gen.raises /\ result.text = CleanResult(env.gen.text)
       \/ result.text = Dumps(FallbackMain)

C15_Witness ==
  /\ Done("process_trip_planner_query")
  /\ variant = "main"
  /\ StartsWith(env.gen.text, TICKS_JSON)
  /\ Len(result.text) = 1
  /\ IsObjectLiteral(result.text[1])
  /\ result.text # Dumps(FallbackMain)
  /\ result.text # env.gen.text

=============================================================================
